---- MODULE Spec2Model ----
(***************************************************************************)
(* A model of python/cryptoauthlib/library.py: the process-wide library    *)
(* handle and its loader, the device metadata lookups, the size/type       *)
(* introspection and the structure marshalling helpers.                    *)
(*                                                                         *)
(* Python values are tagged records ([kind |-> "None"], [kind |-> "int",   *)
(* v |-> 5], ...) so that values of different Python types can be compared.*)
(* Python strings that the code transforms (str.upper) are sequences of    *)
(* one-character strings.  A call is observed through the variables `call` *)
(* (the function called and its arguments) and `ret` (the value returned   *)
(* or the exception raised).                                               *)
(***************************************************************************)
EXTENDS Integers, Sequences, FiniteSets, TLC

VARIABLES
    _CRYPTO_LIB,   \* library.py:35   the global handle
    PATH,          \* os.environ['PATH'] : PyNone when unset, else PyPath(its directories)
    os_name,       \* the platform the process runs on: "posix" or "nt"
    byteorder,     \* sys.byteorder of the platform: "little" or "big"
    S,             \* a structure instance built by get_ctype_structure_instance
    fresh,         \* a second AtcaStructure instance, target of update_from_buffer
    buf,           \* a byte sequence in flight between ctypes_to_bytes / create_byte_buffer and update_from_buffer
    call,          \* the last call made: function name and arguments
    ret            \* its outcome: [exc |-> "none", val |-> value] or [exc |-> name]

vars == <<_CRYPTO_LIB, PATH, os_name, byteorder, S, fresh, buf, call, ret>>

(***************************************************************************)
(* Bounds of the model.                                                    *)
(***************************************************************************)
MaxPathLen == 3    \* directories in PATH: bounds the number of discovery loads
MaxSymSize == 5    \* largest value a <name>_size() symbol returns
MaxFields  == 5    \* c_uint8 fields of the widest structure type marshalled
MaxLen     == 2    \* c_uint8 fields of the widest structure hydrated from a buffer

(***************************************************************************)
(* Python values.                                                          *)
(***************************************************************************)
PyNone == [kind |-> "None"]
PyInt(n) == [kind |-> "int", v |-> n]
\* a Python int of any magnitude, hi * 2^16 + lo with 0 <= lo < 2^16 (TLC's
\* integers are 32-bit, Python's are not)
WideInt(hi, lo) == [kind |-> "int", hi |-> hi, lo |-> lo]
PyStr(s) == [kind |-> "str", v |-> s]
PyType(t) == [kind |-> "type", v |-> t]
PyBytes(b) == [kind |-> "bytes", v |-> b]
PyList(l) == [kind |-> "list", v |-> l]
PyPath(dirs) == [kind |-> "path", v |-> dirs]
Unused == [kind |-> "unused"]

Returned(v) == [exc |-> "none", val |-> v]
Raised(e) == [exc |-> e]

(***************************************************************************)
(* Library handles.  A handle exports a set of symbols; a symbol name is   *)
(* the pair <<stem, suffix>> so that '{}_size'.format(name) is a real      *)
(* construction.  A size symbol is a function of no arguments, modelled by *)
(* the value it returns.                                                   *)
(***************************************************************************)
TypeNames == {"ATCADeviceType", "ATCAIfaceType"}

SizeSymbol(name) == <<name, "_size">>

SymSizes == 0..MaxSymSize

SymbolTables ==
    UNION {[D -> SymSizes] : D \in SUBSET {SizeSymbol(n) : n \in TypeNames}}

\* a handle object the caller binds itself and passes as `lib`
SuppliedLibs == {[kind |-> "lib", name |-> "supplied", symbols |-> t] : t \in SymbolTables}

\* what dlopen of the discovered libcryptoauth path can give: a CDLL over the installed library
InstalledLibs ==
    {[kind |-> "lib", name |-> "libcryptoauth.so", symbols |-> t] :
        t \in {f \in SymbolTables : DOMAIN f = {SizeSymbol(n) : n \in TypeNames}
                                    /\ f[SizeSymbol("ATCADeviceType")] = 4}}

\* CDLL(None) on a POSIX platform: dlopen(NULL), the handle of the main program,
\* which exports none of the <name>_size symbols
MainProgram == [kind |-> "lib", name |-> "None", symbols |-> <<>>]

HasSymbol(lib, sym) == lib # PyNone /\ sym \in DOMAIN lib.symbols

(***************************************************************************)
(* ctypes.util.find_library and ctypes.cdll.LoadLibrary (library.py:83).   *)
(* find_library gives a path or None; what it gives is the environment's   *)
(* choice.  LoadLibrary(path) gives the handle `dl` the dynamic loader     *)
(* produces, or raises OSError (dl = DlFails).  LoadLibrary(None) is       *)
(* dlopen(NULL) on POSIX, which succeeds with the main program's handle,   *)
(* and raises TypeError on Windows.                                        *)
(***************************************************************************)
FindResults == {PyNone, PyStr("libcryptoauth.so")}

DlFails == [kind |-> "OSError"]

DlResults == {DlFails} \cup InstalledLibs

LoadLibrary(os, name, dl) ==
    IF name = PyNone
    THEN IF os = "posix" THEN Returned(MainProgram) ELSE Raised("TypeError")
    ELSE IF dl = DlFails THEN Raised("OSError") ELSE Returned(dl)

(***************************************************************************)
(* load_cryptoauthlib (library.py:72-85).  Gives the new global handle,    *)
(* the new PATH and the outcome.  os.environ['PATH'] raises KeyError when  *)
(* PATH is unset; the bare except turns every exception of the try block   *)
(* into LibraryLoadError, and the assignment of line 83 has then not run.  *)
(***************************************************************************)
ModuleDir == "site-packages/cryptoauthlib"

load_cryptoauthlib_clobber(cur, path, lib, os, found, dl) ==
    IF lib # PyNone
    THEN [lib |-> lib, PATH |-> path, out |-> Returned(PyNone)]
    ELSE IF path = PyNone
         THEN [lib |-> PyNone, PATH |-> path, out |-> Raised("LibraryLoadError")]
         ELSE LET newpath == PyPath(<<ModuleDir>> \o path.v)
                  loaded  == LoadLibrary(os, found, dl)
              IN  IF loaded.exc = "none"
                  THEN [lib |-> loaded.val, PATH |-> newpath, out |-> Returned(PyNone)]
                  ELSE [lib |-> PyNone, PATH |-> newpath, out |-> Raised("LibraryLoadError")]

load_cryptoauthlib(cur, path, lib, os, found, dl) ==
    IF lib # PyNone
    THEN [lib |-> lib, PATH |-> path, out |-> Returned(PyNone)]
    ELSE IF path = PyNone
         THEN [lib |-> cur, PATH |-> path, out |-> Raised("LibraryLoadError")]
         ELSE LET newpath == PyPath(<<ModuleDir>> \o path.v)
                  loaded  == LoadLibrary(os, found, dl)
              IN  IF loaded.exc = "none"
                  THEN [lib |-> loaded.val, PATH |-> newpath, out |-> Returned(PyNone)]
                  ELSE [lib |-> cur, PATH |-> newpath, out |-> Raised("LibraryLoadError")]

\* get_cryptoauthlib (library.py:88-93)
get_cryptoauthlib(cur) == cur

(***************************************************************************)
(* Size and type introspection (library.py:37-38, 127-139).                *)
(***************************************************************************)
_CTYPES_BY_SIZE == (1 :> "c_uint8") @@ (2 :> "c_uint16") @@ (4 :> "c_uint32")

get_size_by_name_default2(lib, name) ==
    IF HasSymbol(lib, SizeSymbol(name)) THEN lib.symbols[SizeSymbol(name)] ELSE 2

\* getattr(_CRYPTO_LIB, '{}_size'.format(name), lambda: 4)()
get_size_by_name(lib, name) ==
    IF HasSymbol(lib, SizeSymbol(name)) THEN lib.symbols[SizeSymbol(name)] ELSE 4

\* _CTYPES_BY_SIZE.get(get_size_by_name(name))
get_ctype_by_name(lib, name) ==
    LET size == get_size_by_name(lib, name)
    IN  IF size \in DOMAIN _CTYPES_BY_SIZE THEN PyType(_CTYPES_BY_SIZE[size]) ELSE PyNone

(***************************************************************************)
(* Python strings as sequences of characters, and str.upper().             *)
(***************************************************************************)
LowerChars == <<"a","b","c","d","e","f","g","h","i","j","k","l","m",
                "n","o","p","q","r","s","t","u","v","w","x","y","z">>

UpperChars == <<"A","B","C","D","E","F","G","H","I","J","K","L","M",
                "N","O","P","Q","R","S","T","U","V","W","X","Y","Z">>

ToUpper ==
    [c \in {LowerChars[i] : i \in 1..Len(LowerChars)} |->
        UpperChars[CHOOSE i \in 1..Len(LowerChars) : LowerChars[i] = c]]

ToLower ==
    [c \in {UpperChars[i] : i \in 1..Len(UpperChars)} |->
        LowerChars[CHOOSE i \in 1..Len(UpperChars) : UpperChars[i] = c]]

upper_char(c) == IF c \in DOMAIN ToUpper THEN ToUpper[c] ELSE c

lower_char(c) == IF c \in DOMAIN ToLower THEN ToLower[c] ELSE c

\* str.upper()
upper(s) == [i \in 1..Len(s) |-> upper_char(s[i])]

(***************************************************************************)
(* Device names (library.py:100-106 and 115-123).                          *)
(***************************************************************************)
N_ATECC108A == <<"A", "T", "E", "C", "C", "1", "0", "8", "A">>

N_ATECC508A == <<"A", "T", "E", "C", "C", "5", "0", "8", "A">>

N_ATECC608 == <<"A", "T", "E", "C", "C", "6", "0", "8">>

N_ATECC608A == <<"A", "T", "E", "C", "C", "6", "0", "8", "A">>

N_ATECC608B == <<"A", "T", "E", "C", "C", "6", "0", "8", "B">>

N_ECC204 == <<"E", "C", "C", "2", "0", "4">>

N_ATSHA204A == <<"A", "T", "S", "H", "A", "2", "0", "4", "A">>

N_ATSHA206A == <<"A", "T", "S", "H", "A", "2", "0", "6", "A">>

N_ATSAH206A == <<"A", "T", "S", "A", "H", "2", "0", "6", "A">>

N_UNKNOWN == <<"U", "N", "K", "N", "O", "W", "N">>

N_NOT_A_DEVICE == <<"N", "O", "T", "_", "A", "_", "D", "E", "V", "I", "C", "E">>

(***************************************************************************)
(* get_device_name (library.py:96-108).  revision[2] is the third byte;    *)
(* a sequence shorter than three raises IndexError.                        *)
(***************************************************************************)
REVISION_DEVICES ==
    (16 :> N_ATECC108A) @@ (80 :> N_ATECC508A) @@ (96 :> N_ATECC608) @@
    (32 :> N_ECC204) @@ (0 :> N_ATSHA204A) @@ (2 :> N_ATSHA204A) @@
    (64 :> N_ATSHA206A)

\* Python's zero-based subscript
Subscript(seq, i) == seq[i + 1]

get_device_name_second_byte(revision) ==
    IF Len(revision) < 3
    THEN Raised("IndexError")
    ELSE IF Subscript(revision, 1) \in DOMAIN REVISION_DEVICES
         THEN Returned(PyStr(REVISION_DEVICES[Subscript(revision, 1)]))
         ELSE Returned(PyStr(N_UNKNOWN))

get_device_name(revision) ==
    IF Len(revision) < 3
    THEN Raised("IndexError")
    ELSE IF Subscript(revision, 2) \in DOMAIN REVISION_DEVICES
         THEN Returned(PyStr(REVISION_DEVICES[Subscript(revision, 2)]))
         ELSE Returned(PyStr(N_UNKNOWN))

(***************************************************************************)
(* get_device_type_id (library.py:111-124): devices.get(name.upper()),     *)
(* a dict.get with no default.                                             *)
(***************************************************************************)
TYPE_DEVICES ==
    (N_ATSHA204A :> 0) @@ (N_ATECC108A :> 1) @@ (N_ATECC508A :> 2) @@
    (N_ATECC608A :> 3) @@ (N_ATECC608B :> 3) @@ (N_ATECC608 :> 3) @@
    (N_ATSAH206A :> 4) @@ (N_ECC204 :> 5) @@ (N_UNKNOWN :> 32)

get_device_type_id_exact(name) ==
    IF name \in DOMAIN TYPE_DEVICES
    THEN Returned(PyInt(TYPE_DEVICES[name]))
    ELSE Returned(PyNone)

get_device_type_id(name) ==
    IF upper(name) \in DOMAIN TYPE_DEVICES
    THEN Returned(PyInt(TYPE_DEVICES[upper(name)]))
    ELSE Returned(PyNone)

(***************************************************************************)
(* ctypes primitives the marshalling helpers call.  A structure type is    *)
(* modelled by its number N of c_uint8 fields f1..fN (so sizeof = N and    *)
(* there is no padding); an instance is [kind |-> "struct", type |-> N,    *)
(* id |-> identity, mem |-> its N bytes].                                  *)
(***************************************************************************)
Zeros(n) == [i \in 1..n |-> 0]

sizeof(obj) == Len(obj.mem)

\* memmove(dst, src, n): the first n bytes of dst are overwritten from src
memmove(dst, src, n) == [i \in 1..Len(dst) |-> IF i <= n THEN src[i] ELSE dst[i]]

\* create_string_buffer(n): n zero bytes
create_string_buffer(n) == Zeros(n)

\* int(value) of an int or of an enumerated value, as a WideInt
int(value) ==
    IF value.kind = "enum" THEN WideInt(value.v \div 65536, value.v % 65536) ELSE value

\* c_uint(value): the 4 bytes of value mod 2^32, in the platform's byte order
c_uint(value, order) ==
    LET w == value.hi % 65536
        le == <<value.lo % 256, value.lo \div 256, w % 256, w \div 256>>
    IN  [i \in 1..4 |-> IF order = "little" THEN le[i] ELSE le[5 - i]]

\* structure.from_buffer_copy(source): ValueError when the source is smaller
\* than the structure, else a new instance over a copy of its first sizeof bytes
from_buffer_copy(structure, source) ==
    IF Len(source) < structure
    THEN Raised("ValueError")
    ELSE Returned([kind |-> "struct", type |-> structure, id |-> "r",
                   mem |-> SubSeq(source, 1, structure)])

\* a value a c_uint8 field accepts: an int, or an object with __index__
AsIndex(value) ==
    IF value.kind = "int" THEN PyInt(value.lo)
    ELSE IF value.kind = "enum" /\ value.isint THEN PyInt(value.v)
    ELSE IF value.kind = "other" THEN value.index
    ELSE PyNone

(***************************************************************************)
(* AtcaStructure.__init__ (library.py:203-214).  No field of the modelled  *)
(* types is a union, structure or array, so lines 205-212 change nothing   *)
(* and the call is ctypes' Structure.__init__: positional arguments fill   *)
(* the fields in order, keyword arguments by name, every other field is    *)
(* zero; a c_uint8 field keeps the value mod 256 and rejects a value that  *)
(* is not an integer with TypeError.  kwargs maps field numbers to ints.   *)
(***************************************************************************)
AtcaStructure_init(structure, args, kwargs) ==
    IF Len(args) > structure
    THEN Raised("TypeError")
    ELSE IF \E i \in 1..Len(args) : AsIndex(args[i]) = PyNone
    THEN Raised("TypeError")
    ELSE Returned([kind |-> "struct", type |-> structure, id |-> "r",
                   mem |-> [i \in 1..structure |->
                               IF i \in DOMAIN kwargs THEN kwargs[i] % 256
                               ELSE IF i <= Len(args) THEN AsIndex(args[i]).v % 256
                               ELSE 0]])

(***************************************************************************)
(* get_ctype_structure_instance (library.py:142-160).  AtcaEnum is not in  *)
(* the sources at hand: whether it derives from int is left open (isint),  *)
(* and int(value) of an enumerated value is its integer value.             *)
(***************************************************************************)
isinstance_int(value) == value.kind = "int" \/ (value.kind = "enum" /\ value.isint)

isinstance_structure(value, structure) == value.kind = "struct" /\ value.type = structure

get_ctype_structure_instance_widen(structure, value, order) ==
    IF value.kind = "dict"
    THEN AtcaStructure_init(structure, <<>>, value.v)
    ELSE IF isinstance_int(value) \/ value.kind = "enum"
    THEN Returned([kind |-> "struct", type |-> structure, id |-> "r",
                   mem |-> [i \in 1..structure |->
                               IF i <= 4 THEN c_uint(int(value), order)[i] ELSE 0]])
    ELSE IF ~isinstance_structure(value, structure)
    THEN AtcaStructure_init(structure, <<value>>, <<>>)
    ELSE Returned(value)

get_ctype_structure_instance(structure, value, order) ==
    IF value.kind = "dict"
    THEN AtcaStructure_init(structure, <<>>, value.v)
    ELSE IF isinstance_int(value)
    THEN from_buffer_copy(structure, c_uint(int(value), order))
    ELSE IF value.kind = "enum"
    THEN from_buffer_copy(structure, c_uint(int(value), order))
    ELSE IF ~isinstance_structure(value, structure)
    THEN AtcaStructure_init(structure, <<value>>, <<>>)
    ELSE Returned(value)

(***************************************************************************)
(* AtcaStructure.update_from_buffer (library.py:216-219): the new bytes of *)
(* the structure and the outcome.                                          *)
(***************************************************************************)
update_from_buffer_off_by_one(self, buffer) ==
    IF Len(buffer) <= sizeof(self)
    THEN [mem |-> self.mem, out |-> Raised("ValueError")]
    ELSE [mem |-> memmove(self.mem, buffer, sizeof(self)), out |-> Returned(PyNone)]

update_from_buffer(self, buffer) ==
    IF Len(buffer) < sizeof(self)
    THEN [mem |-> self.mem, out |-> Raised("ValueError")]
    ELSE [mem |-> memmove(self.mem, buffer, sizeof(self)), out |-> Returned(PyNone)]

(***************************************************************************)
(* ctypes_to_bytes (library.py:222-228) and create_byte_buffer             *)
(* (library.py:231-236).                                                   *)
(***************************************************************************)
ctypes_to_bytes_short(obj) ==
    memmove(create_string_buffer(sizeof(obj)), obj.mem, sizeof(obj) - 1)

ctypes_to_bytes(obj) ==
    memmove(create_string_buffer(sizeof(obj)), obj.mem, sizeof(obj))

create_byte_buffer(init_or_size) ==
    IF init_or_size.kind = "int"
    THEN Zeros(init_or_size.v)
    ELSE [i \in 1..Len(init_or_size.v) |-> init_or_size.v[i]]

(***************************************************************************)
(* The state after import: no handle, no structure, no buffer.  The        *)
(* platform and the PATH the process inherits are the environment's.       *)
(***************************************************************************)
Init ==
    /\ _CRYPTO_LIB = PyNone
    /\ PATH \in {PyNone, PyPath(<<"/usr/bin">>)}
    /\ os_name \in {"posix", "nt"}
    /\ byteorder \in {"little", "big"}
    /\ S = PyNone
    /\ fresh = PyNone
    /\ buf = PyNone
    /\ call = [op |-> "import"]
    /\ ret = Returned(PyNone)

(***************************************************************************)
(* Library loader and introspection: one action per function.              *)
(***************************************************************************)
LoadCryptoauthlib ==
    \E lib \in SuppliedLibs \cup {PyNone}, found \in FindResults, dl \in DlResults :
        LET r == load_cryptoauthlib(_CRYPTO_LIB, PATH, lib, os_name, found, dl)
        IN  /\ (lib = PyNone /\ PATH # PyNone) => Len(PATH.v) < MaxPathLen
            /\ _CRYPTO_LIB' = r.lib
            /\ PATH' = r.PATH
            /\ call' = [op |-> "load_cryptoauthlib", lib |-> lib,
                        found |-> IF lib = PyNone /\ PATH # PyNone THEN found ELSE Unused,
                        dl |-> IF lib = PyNone /\ PATH # PyNone /\ found # PyNone
                               THEN dl ELSE Unused,
                        path |-> PATH]
            /\ ret' = r.out
            /\ UNCHANGED <<os_name, byteorder, S, fresh, buf>>

GetCryptoauthlib ==
    /\ call' = [op |-> "get_cryptoauthlib"]
    /\ ret' = Returned(get_cryptoauthlib(_CRYPTO_LIB))
    /\ UNCHANGED <<_CRYPTO_LIB, PATH, os_name, byteorder, S, fresh, buf>>

QueriedNames == TypeNames \cup {"bool"}

GetSizeByName ==
    \E name \in QueriedNames :
        /\ call' = [op |-> "get_size_by_name", name |-> name]
        /\ ret' = Returned(PyInt(get_size_by_name(_CRYPTO_LIB, name)))
        /\ UNCHANGED <<_CRYPTO_LIB, PATH, os_name, byteorder, S, fresh, buf>>

GetCtypeByName ==
    \E name \in QueriedNames :
        /\ call' = [op |-> "get_ctype_by_name", name |-> name]
        /\ ret' = Returned(get_ctype_by_name(_CRYPTO_LIB, name))
        /\ UNCHANGED <<_CRYPTO_LIB, PATH, os_name, byteorder, S, fresh, buf>>

(***************************************************************************)
(* Device metadata.                                                        *)
(***************************************************************************)
\* bytes 0, 1 and 3 of the revisions tried: each a key of the table, so that a
\* lookup of the wrong byte shows
OtherBytes == {<<96, 16, 64>>, <<255, 2, 80>>}

\* every value of byte 2 with the other bytes zero; the table's keys and two
\* unmapped values of byte 2 with other bytes; two sequences shorter than three
Revisions ==
    {<<0, 0, c, 0>> : c \in 0..255}
    \cup {<<o[1], o[2], c, o[3]>> : o \in OtherBytes, c \in DOMAIN REVISION_DEVICES \cup {1, 255}}
    \cup {<<>>, <<96, 96>>}

\* name with the characters at the positions of mask in lower case
ApplyCase(name, mask) ==
    [i \in 1..Len(name) |-> IF i \in mask THEN lower_char(name[i]) ELSE name[i]]

CasedNames ==
    {N_ATECC108A, N_ATECC508A, N_ATECC608, N_ATECC608A, N_ATECC608B, N_ECC204,
     N_ATSHA204A, N_ATSHA206A, N_ATSAH206A, N_UNKNOWN}

\* the positions of name that hold a letter
LetterPositions(name) == {i \in 1..Len(name) : lower_char(name[i]) # name[i]}

\* every casing of every name of CasedNames, some casings of NOT_A_DEVICE and
\* some names that are no device in any casing
InputNames ==
    UNION {{ApplyCase(n, m) : m \in SUBSET LetterPositions(n)} : n \in CasedNames}
    \cup {ApplyCase(N_NOT_A_DEVICE, m) : m \in SUBSET {1, 5, 12}}
    \cup {<<>>, <<"E", "C", "C", "2", "0">>, <<"E", "C", "C", " ", "2", "0", "4">>}

GetDeviceName ==
    \E revision \in Revisions :
        /\ call' = [op |-> "get_device_name", revision |-> revision]
        /\ ret' = get_device_name(revision)
        /\ UNCHANGED <<_CRYPTO_LIB, PATH, os_name, byteorder, S, fresh, buf>>

GetDeviceTypeId ==
    \E name \in InputNames :
        /\ call' = [op |-> "get_device_type_id", name |-> PyStr(name), revision |-> PyNone]
        /\ ret' = get_device_type_id(name)
        /\ UNCHANGED <<_CRYPTO_LIB, PATH, os_name, byteorder, S, fresh, buf>>

\* a caller's get_device_type_id(get_device_name(revision))
GetDeviceTypeIdOfName ==
    /\ call.op = "get_device_name"
    /\ ret.exc = "none"
    /\ call' = [op |-> "get_device_type_id", name |-> ret.val,
                revision |-> PyBytes(call.revision)]
    /\ ret' = get_device_type_id(ret.val.v)
    /\ UNCHANGED <<_CRYPTO_LIB, PATH, os_name, byteorder, S, fresh, buf>>

(***************************************************************************)
(* Marshalling.                                                            *)
(***************************************************************************)
\* field values of the mappings marshalled: 257 does not fit a c_uint8
KwVals == {257}

\* 0, 1, 0x04030201, -1, 2^32 + 5
IntVals == {WideInt(0, 0), WideInt(0, 1), WideInt(1027, 513), WideInt(-1, 65535),
            WideInt(65536, 5)}

EnumVals == {0, 3, 32}

Mappings(n, vals) == {[kind |-> "dict", v |-> f] : f \in UNION {[D -> vals] : D \in SUBSET (1..n)}}

MarshalValues ==
    Mappings(MaxFields, KwVals)
    \cup IntVals
    \cup {[kind |-> "enum", v |-> v, isint |-> b] : v \in EnumVals, b \in BOOLEAN}
    \cup {[kind |-> "other", index |-> x] : x \in {PyNone, PyInt(7), PyInt(263)}}

\* fresh = structure_type()
NewStructure(structure) ==
    /\ fresh' = [kind |-> "struct", type |-> structure, id |-> "fresh",
                 mem |-> Zeros(structure)]
    /\ call' = [op |-> "AtcaStructure", structure |-> structure]
    /\ ret' = Returned(PyNone)
    /\ UNCHANGED <<_CRYPTO_LIB, PATH, os_name, byteorder, S, buf>>

\* a call of get_ctype_structure_instance(structure, value)
GetCtypeStructureInstance(structure, value) ==
    /\ call' = [op |-> "get_ctype_structure_instance", structure |-> structure,
                value |-> value]
    /\ ret' = get_ctype_structure_instance(structure, value, byteorder)
    /\ UNCHANGED <<_CRYPTO_LIB, PATH, os_name, byteorder, S, fresh, buf>>

\* S = get_ctype_structure_instance(structure, mapping): the assignment does not
\* happen when the call raises
BuildStructure(structure, mapping) ==
    LET r == get_ctype_structure_instance(structure, mapping, byteorder)
    IN  /\ S' = IF r.exc = "none" THEN r.val ELSE S
        /\ call' = [op |-> "get_ctype_structure_instance", structure |-> structure,
                    value |-> mapping]
        /\ ret' = r
        /\ UNCHANGED <<_CRYPTO_LIB, PATH, os_name, byteorder, fresh, buf>>

BufBytes == {0, 255}

ByteSeqs(n) == UNION {[1..k -> BufBytes] : k \in 0..n}

CtypesToBytes ==
    /\ S # PyNone
    /\ buf' = PyBytes(ctypes_to_bytes(S))
    /\ call' = [op |-> "ctypes_to_bytes"]
    /\ ret' = Returned(buf')
    /\ UNCHANGED <<_CRYPTO_LIB, PATH, os_name, byteorder, S, fresh>>

CreateByteBuffer(init_or_size) ==
    /\ buf' = PyBytes(create_byte_buffer(init_or_size))
    /\ call' = [op |-> "create_byte_buffer", init_or_size |-> init_or_size]
    /\ ret' = Returned(buf')
    /\ UNCHANGED <<_CRYPTO_LIB, PATH, os_name, byteorder, S, fresh>>

\* fresh.update_from_buffer(buf); `after` records the call made just before
UpdateFromBuffer ==
    /\ fresh # PyNone
    /\ buf # PyNone
    /\ LET r == update_from_buffer(fresh, buf.v)
       IN  /\ fresh' = [fresh EXCEPT !.mem = r.mem]
           /\ ret' = r.out
    /\ call' = [op |-> "update_from_buffer", buffer |-> buf, after |-> call.op]
    /\ UNCHANGED <<_CRYPTO_LIB, PATH, os_name, byteorder, S, buf>>

(***************************************************************************)
(* Specifications.  The four groups of functions share no state, so each   *)
(* is also checked on its own, from the initial states with the variables  *)
(* it never reads held at one value.                                       *)
(***************************************************************************)
NextLib == LoadCryptoauthlib \/ GetCryptoauthlib \/ GetSizeByName \/ GetCtypeByName

NextMeta == GetDeviceName \/ GetDeviceTypeId \/ GetDeviceTypeIdOfName

NextMarshal ==
    \/ \E structure \in 1..MaxFields : NewStructure(structure)
    \/ \E structure \in 1..MaxFields, value \in MarshalValues \cup ({fresh} \ {PyNone}) :
          GetCtypeStructureInstance(structure, value)

NextBuffer ==
    \/ \E structure \in 1..MaxLen : NewStructure(structure)
    \/ \E structure \in 1..MaxLen, mapping \in Mappings(MaxLen, BufBytes \ {0}) :
          BuildStructure(structure, mapping)
    \/ CtypesToBytes
    \/ \E n \in 0..(MaxLen + 1) : CreateByteBuffer(PyInt(n))
    \/ \E l \in ByteSeqs(MaxLen + 1) : CreateByteBuffer(PyList(l))
    \/ UpdateFromBuffer

Next == NextLib \/ NextMeta \/ NextMarshal \/ NextBuffer

Spec == Init /\ [][Next]_vars

InitLib == Init /\ byteorder = "little"

InitMeta == Init /\ byteorder = "little" /\ os_name = "posix" /\ PATH # PyNone

InitMarshal == Init /\ os_name = "posix" /\ PATH # PyNone

InitBuffer == Init /\ byteorder = "little" /\ os_name = "posix" /\ PATH # PyNone

SpecLib == InitLib /\ [][NextLib]_vars

SpecMeta == InitMeta /\ [][NextMeta]_vars

SpecMarshal == InitMarshal /\ [][NextMarshal]_vars

SpecBuffer == InitBuffer /\ [][NextBuffer]_vars

(***************************************************************************)
(* Properties.                                                             *)
(***************************************************************************)

\* a and b are the same name up to the case of their letters
IsCaseVariant(a, b) ==
    /\ Len(a) = Len(b)
    /\ \A i \in 1..Len(a) :
          \/ a[i] = b[i]
          \/ \E k \in 1..Len(LowerChars) :
                {a[i], b[i]} = {LowerChars[k], UpperChars[k]}

\* name is, in some casing, a key of the device-type table
IsDeviceName(name) == \E n \in DOMAIN TYPE_DEVICES : IsCaseVariant(name, n)

\* C1: for every name that is, upper-cased, no key of the device-type table,
\* get_device_type_id returns the UNKNOWN sentinel 0x20 and never None.
C1_UnknownNameGivesSentinel ==
    (call.op = "get_device_type_id" /\ ~IsDeviceName(call.name.v))
        => ret = Returned(PyInt(32))

\* C2: load_cryptoauthlib() without a handle fails with LibraryLoadError whenever
\* discovery returns no path or the path found cannot be loaded.
C2_NoLibraryRaises ==
    (/\ call.op = "load_cryptoauthlib"
     /\ call.lib = PyNone
     /\ (call.found = PyNone \/ call.dl = DlFails))
        => ret = Raised("LibraryLoadError")

C3_Step ==
    /\ call'.op = "get_cryptoauthlib"
          => /\ ret' = Returned(_CRYPTO_LIB)
             /\ _CRYPTO_LIB' = _CRYPTO_LIB
    /\ (call'.op = "load_cryptoauthlib" /\ ret'.exc # "none")
          => /\ ret' = Raised("LibraryLoadError")
             /\ _CRYPTO_LIB' = _CRYPTO_LIB
    /\ (call'.op = "load_cryptoauthlib" /\ ret'.exc = "none")
          => /\ _CRYPTO_LIB' # PyNone
             /\ _CRYPTO_LIB' = IF call'.lib # PyNone
                               THEN call'.lib
                               ELSE LoadLibrary(os_name, call'.found, call'.dl).val
    /\ call'.op \notin {"load_cryptoauthlib", "get_cryptoauthlib"}
          => _CRYPTO_LIB' = _CRYPTO_LIB

C4_UpdateFromBuffer ==
    [][call'.op = "update_from_buffer"
          => IF Len(buf.v) < fresh.type
             THEN ret' = Raised("ValueError") /\ fresh' = fresh
             ELSE /\ ret' = Returned(PyNone)
                  /\ fresh'.type = fresh.type
                  /\ Len(fresh'.mem) = fresh.type
                  /\ \A i \in 1..fresh.type : fresh'.mem[i] = buf.v[i]]_vars

C4_Witness ==
    /\ call.op = "update_from_buffer"
    /\ ret = Raised("ValueError")
    /\ Len(call.buffer.v) = 1
    /\ fresh.mem = <<255, 0>>

ExpectedName(b) ==
    CASE b = 16 -> "ATECC108A"
      [] b = 80 -> "ATECC508A"
      [] b = 96 -> "ATECC608"
      [] b = 32 -> "ECC204"
      [] b = 0  -> "ATSHA204A"
      [] b = 2  -> "ATSHA204A"
      [] b = 64 -> "ATSHA206A"
      [] OTHER  -> "UNKNOWN"

\* the characters of s, one after the other, read as a string
Spell(s) ==
    CASE s = N_ATECC108A -> "ATECC108A"
      [] s = N_ATECC508A -> "ATECC508A"
      [] s = N_ATECC608  -> "ATECC608"
      [] s = N_ECC204    -> "ECC204"
      [] s = N_ATSHA204A -> "ATSHA204A"
      [] s = N_ATSHA206A -> "ATSHA206A"
      [] s = N_UNKNOWN   -> "UNKNOWN"
      [] OTHER           -> "?"

\* C5: for a 4-byte revision, get_device_name returns the name the table maps
\* its third byte to, and "UNKNOWN" for every other third byte; the other three
\* bytes do not matter.
C5_DeviceNameByThirdByte ==
    (call.op = "get_device_name" /\ Len(call.revision) = 4)
        => /\ ret.exc = "none"
           /\ ret.val.kind = "str"
           /\ Spell(ret.val.v) = ExpectedName(call.revision[3])

C5_Witness ==
    /\ call.op = "get_device_name"
    /\ call.revision = <<255, 2, 96, 80>>
    /\ ret = Returned(PyStr(N_ATECC608))

\* C6: update_from_buffer(ctypes_to_bytes(S)) on a structure of S's type
\* succeeds and gives it S's bytes; ctypes_to_bytes(S) has sizeof(S) bytes.
C6_RoundTrip ==
    (/\ call.op = "update_from_buffer"
     /\ call.after = "ctypes_to_bytes"
     /\ fresh.type = S.type)
        => /\ Len(call.buffer.v) = S.type
           /\ ret = Returned(PyNone)
           /\ fresh.mem = S.mem

C6_Witness ==
    /\ call.op = "update_from_buffer"
    /\ call.after = "ctypes_to_bytes"
    /\ ret = Returned(PyNone)
    /\ S.mem = <<0, 255>>
    /\ fresh.mem = <<0, 255>>

ExpectedTypeId(n) ==
    CASE n = N_ATSHA204A -> 0
      [] n = N_ATECC108A -> 1
      [] n = N_ATECC508A -> 2
      [] n \in {N_ATECC608A, N_ATECC608B, N_ATECC608} -> 3
      [] n = N_ATSAH206A -> 4
      [] n = N_ECC204 -> 5
      [] n = N_UNKNOWN -> 32

\* C7: every casing of a name of the device-type table gives the type id of the
\* upper-case name; "ecc204" and "ECC204" give 5.
C7_CaseInsensitive ==
    call.op = "get_device_type_id"
        => \A n \in DOMAIN TYPE_DEVICES :
              IsCaseVariant(call.name.v, n) => ret = Returned(PyInt(ExpectedTypeId(n)))

C7_Witness ==
    /\ call.op = "get_device_type_id"
    /\ call.name = PyStr(<<"e", "c", "c", "2", "0", "4">>)
    /\ ret = Returned(PyInt(5))

\* what <name>_size() of the loaded library returns, 4 without such a symbol
ExpectedSize(name) ==
    IF _CRYPTO_LIB # PyNone /\ <<name, "_size">> \in DOMAIN _CRYPTO_LIB.symbols
    THEN _CRYPTO_LIB.symbols[<<name, "_size">>]
    ELSE 4

\* C8: get_size_by_name returns the result of <name>_size() when the library
\* has it and 4 otherwise, also with no library loaded; get_ctype_by_name gives
\* c_uint8, c_uint16, c_uint32 for sizes 1, 2, 4 and None for every other size.
C8_SizeAndCtype ==
    /\ call.op = "get_size_by_name" => ret = Returned(PyInt(ExpectedSize(call.name)))
    /\ call.op = "get_ctype_by_name"
          => ret = Returned(CASE ExpectedSize(call.name) = 1 -> PyType("c_uint8")
                              [] ExpectedSize(call.name) = 2 -> PyType("c_uint16")
                              [] ExpectedSize(call.name) = 4 -> PyType("c_uint32")
                              [] OTHER -> PyNone)

C8_Witness ==
    /\ call.op = "get_ctype_by_name"
    /\ ExpectedSize(call.name) = 3
    /\ ret = Returned(PyNone)

\* byte i (from 1) in memory of the 4-byte unsigned representation of a WideInt
ExpectedByte(w, i) ==
    LET k == IF byteorder = "little" THEN i ELSE 5 - i
    IN  CASE k = 1 -> w.lo % 256
          [] k = 2 -> (w.lo \div 256) % 256
          [] k = 3 -> w.hi % 256
          [] k = 4 -> (w.hi \div 256) % 256

\* C9: get_ctype_structure_instance converts by the first case that matches, in
\* the order mapping, integer, enumerated value, not of the target type, of the
\* target type: a mapping is keyword-constructed, an integer or an enumerated
\* value is copied from its 4-byte unsigned representation (ValueError when the
\* structure is wider than 4 bytes), a value of the target type is returned as
\* the same object, anything else is the one positional argument of the
\* constructor; the result never has more bytes than the structure's size.
C9_Dispatch ==
    call.op = "get_ctype_structure_instance" =>
        LET T == call.structure
            v == call.value
        IN  /\ ret.exc = "none" => Len(ret.val.mem) = ret.val.type
            /\ CASE v.kind = "dict" ->
                      /\ ret.exc = "none"
                      /\ ret.val.type = T /\ ret.val.id = "r"
                      /\ \A i \in 1..T :
                            ret.val.mem[i] = IF i \in DOMAIN v.v THEN v.v[i] % 256 ELSE 0
                 [] v.kind = "int" ->
                      IF T > 4
                      THEN ret = Raised("ValueError")
                      ELSE /\ ret.exc = "none"
                           /\ ret.val.type = T /\ ret.val.id = "r"
                           /\ \A i \in 1..T : ret.val.mem[i] = ExpectedByte(v, i)
                 [] v.kind = "enum" ->
                      IF T > 4
                      THEN ret = Raised("ValueError")
                      ELSE /\ ret.exc = "none"
                           /\ ret.val.type = T /\ ret.val.id = "r"
                           /\ \A i \in 1..T :
                                 ret.val.mem[i] = ExpectedByte(WideInt(0, v.v), i)
                 [] v.kind = "struct" /\ v.type = T -> ret = Returned(v)
                 [] v.kind = "struct" /\ v.type # T -> ret = Raised("TypeError")
                 [] v.kind = "other" ->
                      IF v.index = PyNone
                      THEN ret = Raised("TypeError")
                      ELSE /\ ret.exc = "none"
                           /\ ret.val.type = T /\ ret.val.id = "r"
                           /\ ret.val.mem[1] = v.index.v % 256
                           /\ \A i \in 2..T : ret.val.mem[i] = 0

C9_Witness ==
    /\ call.op = "get_ctype_structure_instance"
    /\ call.value = WideInt(1027, 513)
    /\ call.structure = 5
    /\ ret = Raised("ValueError")

\* C10: get_device_type_id(get_device_name(revision)) is an integer type id for
\* every revision, and it is the sentinel 0x20 only for the name "UNKNOWN".
C10_LookupsCompose ==
    (call.op = "get_device_type_id" /\ call.revision # PyNone)
        => /\ ret.exc = "none"
           /\ ret.val.kind = "int"
           /\ (ret.val.v = 32 <=> call.name = PyStr(N_UNKNOWN))

====
